---- MODULE Spec2Model ----
(***************************************************************************)
(* Model of src/app.py: the Four-Pillars feature pipeline                  *)
(*   get_pillars -> extract_features -> eval_rules ->                      *)
(*   generate_interpretation_text, plus _compute_risk_band and ten_god.    *)
(*                                                                         *)
(* TLA+ strings are ASCII, so the Chinese symbols of the source are        *)
(* written in pinyin (tone digits tell wu4 from wu3):                      *)
(*   stems    jia yi bing ding wu4 ji geng xin ren gui                     *)
(*            = 甲 乙 丙 丁 戊 己 庚 辛 壬 癸                              *)
(*   branches zi chou yin mao chen si wu3 wei shen you xu hai              *)
(*            = 子 丑 寅 卯 辰 巳 午 未 申 酉 戌 亥                        *)
(*   elements mu huo tu jin shui = 木 火 土 金 水                          *)
(*   polarity YANG YIN = 阳 阴                                             *)
(*   ten gods bijian jiecai shishen shangguan piancai zhengcai qisha       *)
(*            zhengguan pianyin zhengyin                                   *)
(*            = 比肩 劫财 食神 伤官 偏财 正财 七杀 正官 偏印 正印          *)
(*   weizhi = 未知 (the fallback label), rizhu = 日主 (the self sentinel)  *)
(*   positions niangan yuegan rigan shigan = 年干 月干 日干 时干           *)
(* A Python str is a sequence of one-character symbols, so a pillar code   *)
(* such as "甲子" is <<"jia", "zi">>; Python's 0-based s[0], s[1] are      *)
(* s[1], s[2] here.                                                        *)
(***************************************************************************)
EXTENDS Integers, Sequences, FiniteSets, TLC

VARIABLES pc, pillars, features, rule_hits, interpretation_text, risk, error,
          tg_args, tg_ret

vars == <<pc, pillars, features, rule_hits, interpretation_text, risk, error,
          tg_args, tg_ret>>

-----------------------------------------------------------------------------
(* Symbol tables, src/app.py:39-61 *)

GAN_WUXING ==
  [g \in {"jia", "yi", "bing", "ding", "wu4", "ji", "geng", "xin", "ren", "gui"} |->
     CASE g \in {"jia", "yi"}   -> "mu"
       [] g \in {"bing", "ding"} -> "huo"
       [] g \in {"wu4", "ji"}    -> "tu"
       [] g \in {"geng", "xin"}  -> "jin"
       [] g \in {"ren", "gui"}   -> "shui"]

YIN_YANG ==
  [g \in {"jia", "yi", "bing", "ding", "wu4", "ji", "geng", "xin", "ren", "gui"} |->
     IF g \in {"jia", "bing", "wu4", "geng", "ren"} THEN "YANG" ELSE "YIN"]

SHENG ==
  [mu |-> "huo", huo |-> "tu", tu |-> "jin", jin |-> "shui", shui |-> "mu"]

(* Mutant of KE: jin dominates huo, so the table is no 5-cycle. *)
KE_broken ==
  [mu |-> "tu", tu |-> "shui", shui |-> "huo", huo |-> "jin", jin |-> "huo"]

KE ==
  [mu |-> "tu", tu |-> "shui", shui |-> "huo", huo |-> "jin", jin |-> "mu"]

ZHI_CANGGAN ==
  [zi   |-> <<"gui">>,
   chou |-> <<"ji", "gui", "xin">>,
   yin  |-> <<"jia", "bing", "wu4">>,
   mao  |-> <<"yi">>,
   chen |-> <<"wu4", "yi", "gui">>,
   si   |-> <<"bing", "wu4", "geng">>,
   wu3  |-> <<"ding", "ji">>,
   wei  |-> <<"ji", "ding", "yi">>,
   shen |-> <<"geng", "ren", "wu4">>,
   you  |-> <<"xin">>,
   xu   |-> <<"wu4", "xin", "ding">>,
   hai  |-> <<"ren", "jia">>]

(* The key sets of the tables: the 10-stem and the 12-branch alphabet. *)
GAN == DOMAIN GAN_WUXING
ZHI == DOMAIN ZHI_CANGGAN

(* The element keys of wuxing_counts, src/app.py:86, in their listed order. *)
WUXING == <<"mu", "huo", "tu", "jin", "shui">>

(* all_tg, src/app.py:171: the ten labels in declaration order. *)
all_tg ==
  <<"bijian", "jiecai", "shishen", "shangguan", "piancai", "zhengcai",
    "qisha", "zhengguan", "pianyin", "zhengyin">>

(* Python's None, as a tagged record (so that it compares with the other
   tagged values below). *)
None == [kind |-> "None"]

-----------------------------------------------------------------------------
(* ten_god, src/app.py:64-79 *)

(* same_polar, line 67 *)
same_polar(day_master, other_gan) == YIN_YANG[day_master] = YIN_YANG[other_gan]

(* The five relation-family conditions, in the order the code tests them
   (lines 69, 71, 73, 75, 77). *)
IsPeer(dm_wx, ot_wx)      == ot_wx = dm_wx
IsOutput(dm_wx, ot_wx)    == SHENG[dm_wx] = ot_wx
IsWealth(dm_wx, ot_wx)    == KE[dm_wx] = ot_wx
IsAuthority(dm_wx, ot_wx) == KE[ot_wx] = dm_wx
IsResource(dm_wx, ot_wx)  == SHENG[ot_wx] = dm_wx

(* Mutant of ten_god: the two resource labels swapped. *)
ten_god_resource_swapped(day_master, other_gan) ==
  IF day_master \notin DOMAIN GAN_WUXING \/ other_gan \notin DOMAIN GAN_WUXING
  THEN "KeyError"
  ELSE LET dm_wx == GAN_WUXING[day_master]
           ot_wx == GAN_WUXING[other_gan]
           sp    == same_polar(day_master, other_gan)
       IN  CASE IsPeer(dm_wx, ot_wx)      -> IF sp THEN "bijian" ELSE "jiecai"
             [] IsOutput(dm_wx, ot_wx)    -> IF sp THEN "shishen" ELSE "shangguan"
             [] IsWealth(dm_wx, ot_wx)    -> IF sp THEN "piancai" ELSE "zhengcai"
             [] IsAuthority(dm_wx, ot_wx) -> IF sp THEN "qisha" ELSE "zhengguan"
             [] IsResource(dm_wx, ot_wx)  -> IF sp THEN "zhengyin" ELSE "pianyin"
             [] OTHER                     -> "weizhi"

(* ten_god(day_master, other_gan): the label, or "KeyError" when a table
   lookup of lines 65-67 fails on a symbol outside the stem alphabet. *)
ten_god(day_master, other_gan) ==
  IF day_master \notin DOMAIN GAN_WUXING \/ other_gan \notin DOMAIN GAN_WUXING
  THEN "KeyError"
  ELSE LET dm_wx == GAN_WUXING[day_master]
           ot_wx == GAN_WUXING[other_gan]
           sp    == same_polar(day_master, other_gan)
       IN  IF IsPeer(dm_wx, ot_wx) THEN (IF sp THEN "bijian" ELSE "jiecai")
           ELSE IF IsOutput(dm_wx, ot_wx) THEN (IF sp THEN "shishen" ELSE "shangguan")
           ELSE IF IsWealth(dm_wx, ot_wx) THEN (IF sp THEN "piancai" ELSE "zhengcai")
           ELSE IF IsAuthority(dm_wx, ot_wx) THEN (IF sp THEN "qisha" ELSE "zhengguan")
           ELSE IF IsResource(dm_wx, ot_wx) THEN (IF sp THEN "pianyin" ELSE "zhengyin")
           ELSE "weizhi"

-----------------------------------------------------------------------------
(* Specification of the pure function ten_god over the whole 10 x 10 input
   space: Init draws the two stems, CallTenGod applies the function. *)

IdlePipeline ==
  /\ pc = "idle"
  /\ pillars = None
  /\ features = None
  /\ rule_hits = <<>>
  /\ interpretation_text = None
  /\ risk = None
  /\ error = None

InitTenGod ==
  /\ IdlePipeline
  /\ tg_args \in [day_master : GAN, other_gan : GAN]
  /\ tg_ret = "pending"

CallTenGod ==
  /\ tg_ret = "pending"
  /\ tg_ret' = ten_god(tg_args.day_master, tg_args.other_gan)
  /\ UNCHANGED <<pc, pillars, features, rule_hits, interpretation_text, risk,
                 error, tg_args>>

NextTenGod == CallTenGod

SpecTenGod == InitTenGod /\ [][NextTenGod]_vars

-----------------------------------------------------------------------------
(* Properties of ten_god, checked under SpecTenGod. *)

Returned == tg_ret # "pending"
dm_wx_of_call == GAN_WUXING[tg_args.day_master]
ot_wx_of_call == GAN_WUXING[tg_args.other_gan]

(* The relation families whose condition holds of the call's two stems. *)
FamiliesOfCall ==
  {f \in {"peer", "output", "wealth", "authority", "resource"} :
     CASE f = "peer"      -> IsPeer(dm_wx_of_call, ot_wx_of_call)
       [] f = "output"    -> IsOutput(dm_wx_of_call, ot_wx_of_call)
       [] f = "wealth"    -> IsWealth(dm_wx_of_call, ot_wx_of_call)
       [] f = "authority" -> IsAuthority(dm_wx_of_call, ot_wx_of_call)
       [] f = "resource"  -> IsResource(dm_wx_of_call, ot_wx_of_call)}

(* C1: for every pair of stems of the 10-stem alphabet exactly one of the
   five relation-family conditions of ten_god holds, and ten_god returns one
   of the ten labels, never the fallback "weizhi" (unknown), nor an error. *)
C1_ExactlyOneFamily ==
  /\ Cardinality(FamiliesOfCall) = 1
  /\ Returned => /\ tg_ret # "weizhi"
                 /\ \E i \in 1..Len(all_tg) : all_tg[i] = tg_ret

(* C1 witness: a call has returned through the last of the five tests (the
   resource family). *)
C1_Witness ==
  /\ Returned
  /\ FamiliesOfCall = {"resource"}
  /\ tg_ret \in {"pianyin", "zhengyin"}

(* The naming convention the claim C8 uses: the label of each family that is
   named for matching polarities (as piancai, qisha) and the one named for
   differing polarities (as zhengcai, zhengguan). *)
SamePolarityNamed ==
  [peer |-> "bijian", output |-> "shishen", wealth |-> "piancai",
   authority |-> "qisha", resource |-> "pianyin"]
OppositePolarityNamed ==
  [peer |-> "jiecai", output |-> "shangguan", wealth |-> "zhengcai",
   authority |-> "zhengguan", resource |-> "zhengyin"]

PolarityMatchOfCall == same_polar(tg_args.day_master, tg_args.other_gan)

(* C8 as stated: the peer, output, wealth and authority cases return their
   same-polarity-named label when the polarities match and the other label
   otherwise, and the resource case pairs its labels the other way round:
   zhengyin when the polarities match, pianyin when they differ. *)
C8_Original_ResourceInverted ==
  Returned =>
    \A f \in FamiliesOfCall :
      IF f = "resource"
      THEN tg_ret = (IF PolarityMatchOfCall THEN OppositePolarityNamed[f]
                                            ELSE SamePolarityNamed[f])
      ELSE tg_ret = (IF PolarityMatchOfCall THEN SamePolarityNamed[f]
                                            ELSE OppositePolarityNamed[f])

(* C8 amended: all five cases, the resource case included, pair label and
   polarity the same way: the same-polarity-named label (bijian, shishen,
   piancai, qisha, pianyin) when the two stems' polarities match, the
   opposite-polarity-named label (jiecai, shangguan, zhengcai, zhengguan,
   zhengyin) when they differ. *)
C8_ResourceUniform ==
  Returned =>
    \A f \in FamiliesOfCall :
      tg_ret = (IF PolarityMatchOfCall THEN SamePolarityNamed[f]
                                       ELSE OppositePolarityNamed[f])

(* C8 witness: a resource-case call with matching polarities has returned
   pianyin (for instance ten_god(bing, jia)). *)
C8_Witness ==
  /\ Returned
  /\ FamiliesOfCall = {"resource"}
  /\ PolarityMatchOfCall
  /\ tg_ret = "pianyin"

-----------------------------------------------------------------------------
(* Python values used by the pipeline. *)

(* A function's outcome: a returned value or a raised exception. *)
Return(v) == [kind |-> "return", value |-> v]
Raise(exc) == [kind |-> "raise", exc |-> exc]

(* A Python dict used as a counter, kept as the sequence of its <<key,
   count>> items in insertion order (the order dict.items() yields).
   DictGet is d.get(k, 0); DictIncr is d[k] = d.get(k, 0) + 1. *)
DictGet(d, k) ==
  IF \E i \in 1..Len(d) : d[i][1] = k
  THEN d[CHOOSE i \in 1..Len(d) : d[i][1] = k][2]
  ELSE 0

DictIncr(d, k) ==
  IF \E i \in 1..Len(d) : d[i][1] = k
  THEN [i \in 1..Len(d) |-> IF d[i][1] = k THEN <<k, d[i][2] + 1>> ELSE d[i]]
  ELSE Append(d, <<k, 1>>)

(* for k in keys: d[k] = d.get(k, 0) + 1, left to right. *)
RECURSIVE CountAll(_, _)
CountAll(d, keys) ==
  IF keys = <<>> THEN d ELSE CountAll(DictIncr(d, Head(keys)), Tail(keys))

-----------------------------------------------------------------------------
(* extract_features, src/app.py:82-105 *)

(* labels, line 96 *)
labels == <<"niangan", "yuegan", "rigan", "shigan">>

(* The four pillar codes of p in pillar order (lines 83-84 read them so). *)
CodesOf(p) == <<p.year_gz, p.month_gz, p.day_gz, p.hour_gz>>

(* gans, zhis (lines 83-84): character 0 and character 1 of each code. *)
gans_of(p) == [i \in 1..4 |-> CodesOf(p)[i][1]]
zhis_of(p) == [i \in 1..4 |-> CodesOf(p)[i][2]]

(* for s in stems: wuxing_counts[GAN_WUXING[s]] += 1 (lines 87-88, 93). *)
RECURSIVE TallyWuxing(_, _)
TallyWuxing(counts, stems) ==
  IF stems = <<>> THEN counts
  ELSE TallyWuxing([counts EXCEPT ![GAN_WUXING[Head(stems)]] = @ + 1], Tail(stems))

(* Mutant: the hidden stems of a branch cut to its first two. *)
HiddenOf_first_two(z) == SubSeq(ZHI_CANGGAN[z], 1, IF Len(ZHI_CANGGAN[z]) < 2 THEN Len(ZHI_CANGGAN[z]) ELSE 2)

(* ZHI_CANGGAN[z], line 92 *)
HiddenOf(z) == ZHI_CANGGAN[z]

(* Mutant: only the main (first) hidden stem of each branch is tallied. *)
RECURSIVE AllHidden_tally_main_only(_)
AllHidden_tally_main_only(zhis) ==
  IF zhis = <<>> THEN <<>>
  ELSE <<HiddenOf(Head(zhis))[1]>> \o AllHidden_tally_main_only(Tail(zhis))

(* The hidden stems the nested loop of lines 91-93 visits, in order. *)
RECURSIVE AllHidden(_)
AllHidden(zhis) ==
  IF zhis = <<>> THEN <<>>
  ELSE HiddenOf(Head(zhis)) \o AllHidden(Tail(zhis))

(* canggan_ten_gods (lines 90-94): one (z, cg, ten_god(day_master, cg))
   triple per hidden stem of each branch, in pillar order. *)
RECURSIVE CangganTriples(_, _)
CangganTriples(day_master, zhis) ==
  IF zhis = <<>> THEN <<>>
  ELSE LET z  == Head(zhis)
           cs == HiddenOf(z)
       IN  [j \in 1..Len(cs) |-> <<z, cs[j], ten_god(day_master, cs[j])>>]
           \o CangganTriples(day_master, Tail(zhis))

(* Mutant: the self test of line 99 dropped. *)
TenGodsGan_no_sentinel(day_master, gans) ==
  [lbl \in {labels[i] : i \in 1..4} |->
     LET g == gans[CHOOSE i \in 1..4 : labels[i] = lbl]
     IN  ten_god(day_master, g)]

(* ten_gods_gan (lines 96-99) *)
TenGodsGan(day_master, gans) ==
  [lbl \in {labels[i] : i \in 1..4} |->
     LET g == gans[CHOOSE i \in 1..4 : labels[i] = lbl]
     IN  IF g = day_master THEN "rizhu" ELSE ten_god(day_master, g)]

(* extract_features(p): the feature bundle, or the exception the first
   failing subscript raises: IndexError for a code shorter than two
   characters (lines 83-84), KeyError for a stem that is no key of GAN_WUXING
   (line 88), a branch that is no key of ZHI_CANGGAN (line 92), or a
   day_master that ten_god cannot look up (lines 94, 99).  Characters of a
   code after the second are never read. *)
extract_features(p) ==
  LET codes == CodesOf(p)
  IN  IF \E i \in 1..4 : Len(codes[i]) < 2 THEN Raise("IndexError")
      ELSE
        LET gans == gans_of(p)
            zhis == zhis_of(p)
        IN  IF \E i \in 1..4 : gans[i] \notin DOMAIN GAN_WUXING THEN Raise("KeyError")
            ELSE IF \E i \in 1..4 : zhis[i] \notin DOMAIN ZHI_CANGGAN THEN Raise("KeyError")
            ELSE
              LET canggan_ten_gods == CangganTriples(p.day_master, zhis)
                  ten_gods_gan     == TenGodsGan(p.day_master, gans)
                  wuxing_counts    ==
                    TallyWuxing(
                      TallyWuxing([e \in {WUXING[i] : i \in 1..5} |-> 0], gans),
                      AllHidden(zhis))
              IN  IF \/ \E j \in 1..Len(canggan_ten_gods) : canggan_ten_gods[j][3] = "KeyError"
                     \/ \E lbl \in DOMAIN ten_gods_gan : ten_gods_gan[lbl] = "KeyError"
                  THEN Raise("KeyError")
                  ELSE Return([wuxing_counts    |-> wuxing_counts,
                               ten_gods_gan     |-> ten_gods_gan,
                               canggan_ten_gods |-> canggan_ten_gods])

-----------------------------------------------------------------------------
(* Band classifiers, src/app.py:111-137 *)

_band_wuxing(count) ==
  IF count <= 2 THEN "low" ELSE IF count <= 4 THEN "medium" ELSE "high"

_band_0_1_2_3plus(count) ==
  IF count = 0 THEN "none"
  ELSE IF count = 1 THEN "low"
  ELSE IF count = 2 THEN "medium"
  ELSE "high"

_band_0_1_2plus(count) ==
  IF count = 0 THEN "none" ELSE IF count = 1 THEN "low" ELSE "high"

-----------------------------------------------------------------------------
(* eval_rules, src/app.py:140-197 *)

(* The number of entries sorted_items[:5] keeps, line 185. *)
TopN == 5

(* tg_gan_counter (lines 148-152): the visible relations in the order
   ten_gans.items() yields them, the "rizhu" sentinel skipped. *)
tg_gan_counter_of(ten_gans) ==
  CountAll(<<>>, SelectSeq([i \in 1..4 |-> ten_gans[labels[i]]],
                           LAMBDA tg : tg # "rizhu"))

(* tg_cg_counter (lines 155-157): counts of the triples' labels, keys in
   the order of their first occurrence. *)
tg_cg_counter_of(canggan) ==
  CountAll(<<>>, [j \in 1..Len(canggan) |-> canggan[j][3]])

(* One step of a stable descending sort: x goes behind every item whose
   count is not smaller. *)
InsertDesc(sorted, x) ==
  LET k == Cardinality({i \in 1..Len(sorted) : sorted[i][2] >= x[2]})
  IN  SubSeq(sorted, 1, k) \o <<x>> \o SubSeq(sorted, k + 1, Len(sorted))

RECURSIVE SortInto(_, _)
SortInto(sorted, items) ==
  IF items = <<>> THEN sorted
  ELSE SortInto(InsertDesc(sorted, Head(items)), Tail(items))

(* Mutant: the sort of line 184 left out, the items kept in insertion
   order. *)
sorted_by_count_desc_unsorted(items) == items

(* sorted(items, key=lambda x: x[1], reverse=True), line 184: Python's sort
   is stable, also with reverse=True, so items of equal count keep the
   order they have in items. *)
sorted_by_count_desc(items) == SortInto(<<>>, items)

(* The five WUXING hits, lines 160-168. *)
wuxing_hits(wux) ==
  [i \in 1..5 |->
     LET e    == WUXING[i]
         cnt  == wux[e]
         band == _band_wuxing(cnt)
     IN  [rule_id  |-> "WUXING-" \o e,
          title    |-> e \o " yuansu shuiping",
          message  |-> band,
          evidence |-> [element |-> e, count |-> cnt, band |-> band]]]

(* Mutant: the table built over the labels that occur instead of all_tg. *)
band_table_of_only_occurring(tg_gan_counter) ==
  [tg \in {tg_gan_counter[i][1] : i \in 1..Len(tg_gan_counter)} |->
     LET c == DictGet(tg_gan_counter, tg)
     IN  [count |-> c, band |-> _band_0_1_2_3plus(c)]]

(* band_table, lines 171-175: one entry per label of all_tg. *)
band_table_of(tg_gan_counter) ==
  [tg \in {all_tg[i] : i \in 1..Len(all_tg)} |->
     LET c == DictGet(tg_gan_counter, tg)
     IN  [count |-> c, band |-> _band_0_1_2_3plus(c)]]

(* top_items = sorted_items[:5], line 185. *)
top_items_of(sorted_items) ==
  SubSeq(sorted_items, 1, IF Len(sorted_items) < TopN THEN Len(sorted_items) ELSE TopN)

(* out, lines 186-188. *)
top_out(top_items) ==
  [i \in 1..Len(top_items) |->
     [ten_god |-> top_items[i][1],
      count   |-> top_items[i][2],
      band    |-> _band_0_1_2plus(top_items[i][2])]]

eval_rules(f) ==
  LET wux            == f.wuxing_counts
      ten_gans       == f.ten_gods_gan
      canggan        == f.canggan_ten_gods
      tg_gan_counter == tg_gan_counter_of(ten_gans)
      tg_cg_counter  == tg_cg_counter_of(canggan)
      sorted_items   == sorted_by_count_desc(tg_cg_counter)
      top_items      == top_items_of(sorted_items)
  IN  wuxing_hits(wux)
      \o <<[rule_id  |-> "TEN-GOD-GANS",
            title    |-> "tiangan shishen qiangdu (qujian)",
            message  |-> "none/low/medium/high",
            evidence |-> [ten_god_gans |-> band_table_of(tg_gan_counter)]]>>
      \o <<[rule_id  |-> "CANGGAN-TOP5",
            title    |-> "canggan shishen qiangdu (Top5)",
            message  |-> "none/low/high",
            evidence |-> [top |-> top_out(top_items)]]>>

-----------------------------------------------------------------------------
(* generate_interpretation_text, src/app.py:203-220 *)

(* h.get("rule_id", "").startswith("WUXING-"), line 210 *)
IsWuxingHit(h) ==
  /\ Len(h.rule_id) >= Len("WUXING-")
  /\ SubSeq(h.rule_id, 1, Len("WUXING-")) = "WUXING-"

(* band_map, lines 208-212: element -> band, read from the WUXING hits. *)
band_map_of(hits) ==
  LET idx == {i \in 1..Len(hits) : IsWuxingHit(hits[i])}
  IN  [e \in {hits[i].evidence.element : i \in idx} |->
         hits[CHOOSE i \in idx : hits[i].evidence.element = e].evidence.band]

(* _wx_desc, lines 214-220: the nested helper; defined, never called. *)
_wx_desc(band_map, e) ==
  LET band == IF e \in DOMAIN band_map THEN band_map[e] ELSE "medium"
  IN  IF band = "high" THEN e \o " pianwang"
      ELSE IF band = "low" THEN e \o " pianruo"
      ELSE e \o " zhongdeng"

(* The body of generate_interpretation_text ends with the definition of
   _wx_desc at line 220: it builds band_map, defines the helper and falls
   off its end, so the call returns None.  The statements that build and
   join the paragraphs stand at lines 264-330, after the return statement
   of _compute_risk_band (line 261), and are never executed. *)
generate_interpretation_text(p, f, hits) ==
  LET wx       == f.wuxing_counts
      tg_gan   == f.ten_gods_gan
      band_map == band_map_of(hits)
  IN  None

-----------------------------------------------------------------------------
(* _compute_risk_band, src/app.py:223-261 *)

stabilizing_set == {"zhengyin", "pianyin", "bijian", "jiecai"}
tension_set == {"qisha", "zhengguan", "shishen", "shangguan", "piancai", "zhengcai"}

(* counter, lines 233-238: visible relations without the sentinel, then the
   labels of all hidden-stem triples. *)
risk_counter_of(f) ==
  CountAll(
    CountAll(<<>>, SelectSeq([i \in 1..4 |-> f.ten_gods_gan[labels[i]]],
                             LAMBDA tg : tg # "rizhu")),
    [j \in 1..Len(f.canggan_ten_gods) |-> f.canggan_ten_gods[j][3]])

(* sum(counter[t] for t in S), lines 245-246 *)
RECURSIVE SumCounter(_, _)
SumCounter(counter, S) ==
  IF S = {} THEN 0
  ELSE LET t == CHOOSE t \in S : TRUE
       IN  DictGet(counter, t) + SumCounter(counter, S \ {t})

(* Mutant: the medium band one count narrower (stabilizing + 1). *)
risk_band_of_narrow_medium(stabilizing, tension) ==
  IF tension <= stabilizing THEN "low"
  ELSE IF tension <= stabilizing + 1 THEN "medium"
  ELSE "high"

(* lines 249-254 *)
risk_band_of(stabilizing, tension) ==
  IF tension <= stabilizing THEN "low"
  ELSE IF tension <= stabilizing + 2 THEN "medium"
  ELSE "high"

_compute_risk_band(f) ==
  LET counter     == risk_counter_of(f)
      stabilizing == SumCounter(counter, stabilizing_set)
      tension     == SumCounter(counter, tension_set)
  IN  [kind     |-> "tuple",
       band     |-> risk_band_of(stabilizing, tension),
       evidence |-> [stabilizing |-> stabilizing,
                     tension     |-> tension,
                     diff        |-> tension - stabilizing]]

-----------------------------------------------------------------------------
(* Inputs. *)

(* The two alphabets in their canonical order (the key order of the tables
   at src/app.py:39-45 and 56-61). *)
GanSeq == <<"jia", "yi", "bing", "ding", "wu4", "ji", "geng", "xin", "ren", "gui">>
ZhiSeq == <<"zi", "chou", "yin", "mao", "chen", "si", "wu3", "wei", "shen", "you", "xu", "hai">>

(* The n-th code of the sexagenary cycle (n = 0 is jia-zi, 1 is yi-chou, ...),
   the form of the strings getYearInGanZhi() etc. return. *)
CycleCode(n) == <<GanSeq[(n % Len(GanSeq)) + 1], ZhiSeq[(n % Len(ZhiSeq)) + 1]>>

(* Bounds of the model.  The day pillar ranges over every stem and every
   branch; the year, month and hour pillars over the first NumOtherCodes
   codes of the cycle. *)
NumOtherCodes == 5
(* In the malformed-input specification: the codes of the three pillars
   that are not probed, and the longest probed code. *)
NumFillCodes == 2
MaxCodeLen == 3

OtherCodes == {CycleCode(n) : n \in 0..(NumOtherCodes - 1)}
DayCodes == {<<g, z>> : g \in GAN, z \in ZHI}
FillCodes == {CycleCode(n) : n \in 0..(NumFillCodes - 1)}

(* Probe symbols for malformed codes: a stem, a branch, and a symbol of
   neither alphabet. *)
ProbeSymbols == {"jia", "zi", "X"}
ProbeCodes == UNION {[1..n -> ProbeSymbols] : n \in 0..MaxCodeLen}

-----------------------------------------------------------------------------
(* The run handler, src/app.py:370-392, one action per call it makes. *)

Init ==
  /\ IdlePipeline
  /\ tg_args = None
  /\ tg_ret = "unused"

(* get_pillars, lines 23-33: four two-character codes from the calendar
   library, and day_master = day_gz[0]. *)
get_pillars ==
  /\ pc = "idle"
  /\ \E year_gz \in OtherCodes, month_gz \in OtherCodes,
        day_gz \in DayCodes, hour_gz \in OtherCodes :
       pillars' = [year_gz |-> year_gz, month_gz |-> month_gz,
                   day_gz |-> day_gz, hour_gz |-> hour_gz,
                   day_master |-> day_gz[1]]
  /\ pc' = "pillars"
  /\ UNCHANGED <<features, rule_hits, interpretation_text, risk, error,
                 tg_args, tg_ret>>

(* features = extract_features(pillars), line 375 *)
ExtractFeatures ==
  /\ pc = "pillars"
  /\ LET r == extract_features(pillars)
     IN  IF r.kind = "raise"
         THEN /\ pc' = "error"
              /\ error' = r.exc
              /\ UNCHANGED features
         ELSE /\ pc' = "extracted"
              /\ features' = r.value
              /\ UNCHANGED error
  /\ UNCHANGED <<pillars, rule_hits, interpretation_text, risk, tg_args, tg_ret>>

(* rule_hits = eval_rules(features), line 376 *)
EvalRules ==
  /\ pc = "extracted"
  /\ rule_hits' = eval_rules(features)
  /\ pc' = "evaluated"
  /\ UNCHANGED <<pillars, features, interpretation_text, risk, error,
                 tg_args, tg_ret>>

(* interpretation_text = generate_interpretation_text(...), line 391 *)
GenerateInterpretationText ==
  /\ pc = "evaluated"
  /\ interpretation_text' = generate_interpretation_text(pillars, features, rule_hits)
  /\ pc' = "done"
  /\ UNCHANGED <<pillars, features, rule_hits, risk, error, tg_args, tg_ret>>

(* _compute_risk_band(features): the handler never calls it (its only call
   site, line 305, is unreachable); it is applied here to the feature
   bundle of a finished run. *)
ComputeRiskBand ==
  /\ pc = "done"
  /\ risk = None
  /\ risk' = _compute_risk_band(features)
  /\ UNCHANGED <<pc, pillars, features, rule_hits, interpretation_text, error,
                 tg_args, tg_ret>>

Next ==
  \/ get_pillars
  \/ ExtractFeatures
  \/ EvalRules
  \/ GenerateInterpretationText
  \/ ComputeRiskBand

Spec == Init /\ [][Next]_vars

-----------------------------------------------------------------------------
(* Malformed input: the Pillars dataclass (src/app.py:14-20) checks nothing,
   so a caller can hand extract_features any strings.  One pillar position
   takes a probe code, the other three a well-formed code. *)

ConstructPillars ==
  /\ pc = "idle"
  /\ \E pos \in 1..4, probe \in ProbeCodes, fill \in [1..4 -> FillCodes] :
       LET codes == [fill EXCEPT ![pos] = probe]
       IN  pillars' = [year_gz |-> codes[1], month_gz |-> codes[2],
                       day_gz |-> codes[3], hour_gz |-> codes[4],
                       day_master |-> IF Len(codes[3]) >= 1 THEN codes[3][1]
                                                            ELSE "jia"]
  /\ pc' = "pillars"
  /\ UNCHANGED <<features, rule_hits, interpretation_text, risk, error,
                 tg_args, tg_ret>>

NextMalformed ==
  \/ ConstructPillars
  \/ ExtractFeatures
  \/ EvalRules
  \/ GenerateInterpretationText
  \/ ComputeRiskBand

SpecMalformed == Init /\ [][NextMalformed]_vars

-----------------------------------------------------------------------------
(* Properties of the pipeline. *)

HasFeatures == pc \in {"extracted", "evaluated", "done"}
HasHits == pc \in {"evaluated", "done"}

LabelSet == {all_tg[i] : i \in 1..Len(all_tg)}
ElementSet == {WUXING[i] : i \in 1..Len(WUXING)}

(* A pillar code is well formed: exactly a stem followed by a branch. *)
WellFormedCode(c) == Len(c) = 2 /\ c[1] \in GAN /\ c[2] \in ZHI
WellFormed(p) == \A i \in 1..4 : WellFormedCode(CodesOf(p)[i])

(* The number of hidden stems of the four branches of the pillars. *)
TotalHidden ==
  LET zhis == zhis_of(pillars)
  IN  Len(ZHI_CANGGAN[zhis[1]]) + Len(ZHI_CANGGAN[zhis[2]])
      + Len(ZHI_CANGGAN[zhis[3]]) + Len(ZHI_CANGGAN[zhis[4]])

SumOfWuxingCounts ==
  LET wc == features.wuxing_counts
  IN  wc["mu"] + wc["huo"] + wc["tu"] + wc["jin"] + wc["shui"]

(* The finding of rule_hits with the given rule_id. *)
HitsWithId(id) == {i \in 1..Len(rule_hits) : rule_hits[i].rule_id = id}
Hit(id) == rule_hits[CHOOSE i \in HitsWithId(id) : TRUE]

(* C2: for well-formed pillars, wuxing_counts has exactly the five element
   keys, each with a value >= 0, and the values sum to 4 plus the number of
   hidden stems of the four branches. *)
C2_WuxingCountsSum ==
  (HasFeatures /\ WellFormed(pillars)) =>
    /\ DOMAIN features.wuxing_counts = ElementSet
    /\ \A e \in ElementSet : features.wuxing_counts[e] >= 0
    /\ SumOfWuxingCounts = 4 + TotalHidden

(* C2 witness: a bundle whose branches hide more than four stems and in
   which some element key is present with the value 0. *)
C2_Witness ==
  /\ HasFeatures
  /\ WellFormed(pillars)
  /\ TotalHidden > 4
  /\ \E e \in ElementSet : features.wuxing_counts[e] = 0
  /\ SumOfWuxingCounts = 4 + TotalHidden

(* C7 as stated: the canggan_ten_gods list of well-formed pillars has a
   length between 4 and 8. *)
C7_Original_LengthAtMost8 ==
  (HasFeatures /\ WellFormed(pillars)) =>
    /\ Len(features.canggan_ten_gods) >= 4
    /\ Len(features.canggan_ten_gods) <= 8

(* C7 amended: the canggan_ten_gods list holds one (branch, hidden stem,
   relation) triple per hidden stem of each of the four branches, in pillar
   order; its length is the number of hidden stems of the four branches,
   which lies between 4 and 12 inclusive (a branch hides 1 to 3 stems), so
   one run performs at most 12 hidden-stem lookups. *)
C7_LengthAtMost12 ==
  (HasFeatures /\ WellFormed(pillars)) =>
    LET cg   == features.canggan_ten_gods
        zhis == zhis_of(pillars)
        (* the position in cg of hidden stem j of branch i *)
        At(i, j) == j + (IF i > 1 THEN Len(ZHI_CANGGAN[zhis[1]]) ELSE 0)
                      + (IF i > 2 THEN Len(ZHI_CANGGAN[zhis[2]]) ELSE 0)
                      + (IF i > 3 THEN Len(ZHI_CANGGAN[zhis[3]]) ELSE 0)
    IN  /\ Len(cg) = TotalHidden
        /\ Len(cg) >= 4
        /\ Len(cg) <= 12
        /\ \A i \in 1..4 : \A j \in 1..Len(ZHI_CANGGAN[zhis[i]]) :
             /\ cg[At(i, j)][1] = zhis[i]
             /\ cg[At(i, j)][2] = ZHI_CANGGAN[zhis[i]][j]
             /\ cg[At(i, j)][3] = ten_god(pillars.day_master, ZHI_CANGGAN[zhis[i]][j])

(* C7 witness: four branches of three hidden stems each: 12 triples. *)
C7_Witness ==
  /\ HasFeatures
  /\ WellFormed(pillars)
  /\ Len(features.canggan_ten_gods) = 12

-----------------------------------------------------------------------------
(* The CANGGAN-TOP5 finding. *)

(* The frequency of a label among the hidden-stem triples. *)
CgFreq(tg) ==
  Cardinality({j \in 1..Len(features.canggan_ten_gods) :
                 features.canggan_ten_gods[j][3] = tg})
CgOccurring == {tg \in LabelSet : CgFreq(tg) > 0}

DeclIndex(tg) == CHOOSE i \in 1..Len(all_tg) : all_tg[i] = tg
FirstOccurrence(tg) ==
  CHOOSE j \in 1..Len(features.canggan_ten_gods) :
    /\ features.canggan_ten_gods[j][3] = tg
    /\ \A k \in 1..(j - 1) : features.canggan_ten_gods[k][3] # tg

(* The place of an occurring label when the occurring labels are ordered by
   decreasing frequency, ties by declaration order / by first occurrence. *)
RankByDeclaration(tg) ==
  1 + Cardinality({u \in CgOccurring :
        \/ CgFreq(u) > CgFreq(tg)
        \/ (CgFreq(u) = CgFreq(tg) /\ DeclIndex(u) < DeclIndex(tg))})
RankByFirstOccurrence(tg) ==
  1 + Cardinality({u \in CgOccurring :
        \/ CgFreq(u) > CgFreq(tg)
        \/ (CgFreq(u) = CgFreq(tg) /\ FirstOccurrence(u) < FirstOccurrence(tg))})

Top == Hit("CANGGAN-TOP5").evidence.top
TopLabels == {Top[i].ten_god : i \in 1..Len(Top)}

(* What C5 says whatever the tie rule: the finding is emitted once, lists
   min(5, d) entries, none with count 0, each with its frequency, and no
   excluded label has a higher count than an included one. *)
TopIsTopFrequencies ==
  /\ Cardinality(HitsWithId("CANGGAN-TOP5")) = 1
  /\ Len(Top) = (IF Cardinality(CgOccurring) < 5 THEN Cardinality(CgOccurring) ELSE 5)
  /\ Len(Top) <= 5
  /\ \A i \in 1..Len(Top) :
       /\ Top[i].ten_god \in CgOccurring
       /\ Top[i].count = CgFreq(Top[i].ten_god)
       /\ Top[i].count > 0
  /\ \A u \in CgOccurring \ TopLabels : \A i \in 1..Len(Top) :
       CgFreq(u) <= Top[i].count

(* C5 as stated: CANGGAN-TOP5 lists the first min(5, d) of the d occurring
   labels ordered by decreasing frequency, ties broken by the declaration
   order of the labels (all_tg). *)
C5_Original_TiesByDeclaration ==
  (HasHits /\ WellFormed(pillars)) =>
    /\ TopIsTopFrequencies
    /\ \A i \in 1..Len(Top) : RankByDeclaration(Top[i].ten_god) = i

(* C5 amended: CANGGAN-TOP5 lists the first min(5, d) of the d occurring
   labels ordered by decreasing frequency, ties broken by the order in
   which the labels first occur in the hidden-stem triple list; never more
   than 5 entries, never one with count 0, and no excluded label has a
   higher count than an included one. *)
C5_TiesByFirstOccurrence ==
  (HasHits /\ WellFormed(pillars)) =>
    /\ TopIsTopFrequencies
    /\ \A i \in 1..Len(Top) : RankByFirstOccurrence(Top[i].ten_god) = i

(* C5 witness: more than five labels occur, and two listed labels of equal
   count stand against their declaration order. *)
C5_Witness ==
  /\ HasHits
  /\ WellFormed(pillars)
  /\ Cardinality(CgOccurring) > 5
  /\ Len(Top) = 5
  /\ \E i \in 1..Len(Top) : \E j \in (i + 1)..Len(Top) :
       /\ Top[i].count = Top[j].count
       /\ DeclIndex(Top[i].ten_god) > DeclIndex(Top[j].ten_god)

-----------------------------------------------------------------------------
(* The TEN-GOD-GANS finding. *)

(* The frequency of a label among the four visible-stem relations; the
   sentinel "rizhu" is no label, so it is counted for none. *)
GanFreq(tg) ==
  Cardinality({lbl \in DOMAIN features.ten_gods_gan : features.ten_gods_gan[lbl] = tg})

BandTable == Hit("TEN-GOD-GANS").evidence.ten_god_gans

(* C6: eval_rules emits the TEN-GOD-GANS finding, also when every count is
   zero; its table has exactly 10 entries, one per relation label, each
   holding the label's frequency among the visible-stem relations (the
   sentinel left out) and the band 0 -> none, 1 -> low, 2 -> medium,
   3 or more -> high. *)
C6_TenGodGansTable ==
  (HasHits /\ WellFormed(pillars)) =>
    /\ Cardinality(HitsWithId("TEN-GOD-GANS")) = 1
    /\ DOMAIN BandTable = LabelSet
    /\ Cardinality(DOMAIN BandTable) = 10
    /\ \A tg \in LabelSet :
         /\ BandTable[tg].count = GanFreq(tg)
         /\ BandTable[tg].band \in {"none", "low", "medium", "high"}
         /\ BandTable[tg].band =
              (CASE GanFreq(tg) = 0 -> "none"
                 [] GanFreq(tg) = 1 -> "low"
                 [] GanFreq(tg) = 2 -> "medium"
                 [] GanFreq(tg) >= 3 -> "high")

(* C6 witness: all four visible stems equal the day master, so every
   visible relation is the sentinel and every count of the emitted table
   is zero. *)
C6_Witness ==
  /\ HasHits
  /\ WellFormed(pillars)
  /\ \A lbl \in DOMAIN features.ten_gods_gan : features.ten_gods_gan[lbl] = "rizhu"
  /\ Cardinality(HitsWithId("TEN-GOD-GANS")) = 1
  /\ \A tg \in LabelSet : BandTable[tg] = [count |-> 0, band |-> "none"]

-----------------------------------------------------------------------------
(* The risk band. *)

RiskComputed == risk.kind = "tuple"

(* Occurrences of the labels of S among the visible relations and the
   hidden-stem triples. *)
OccurrencesIn(S) ==
  Cardinality({lbl \in DOMAIN features.ten_gods_gan : features.ten_gods_gan[lbl] \in S})
  + Cardinality({j \in 1..Len(features.canggan_ten_gods) :
                   features.canggan_ten_gods[j][3] \in S})

NonSelfVisible ==
  Cardinality({lbl \in DOMAIN features.ten_gods_gan : features.ten_gods_gan[lbl] # "rizhu"})

(* C9: _compute_risk_band sums the occurrences of bijian, jiecai, zhengyin,
   pianyin (stabilizing) and of the other six labels (tension) over the
   visible relations without the sentinel and all hidden-stem triples, and
   returns low exactly when tension <= stabilizing, medium exactly when
   stabilizing < tension <= stabilizing + 2, high otherwise; (3,3) -> low,
   (3,5) -> medium, (3,6) -> high; stabilizing + tension is the number of
   non-self visible relations plus the number of triples. *)
C9_RiskBand ==
  (RiskComputed /\ WellFormed(pillars)) =>
    LET st == risk.evidence.stabilizing
        te == risk.evidence.tension
    IN  /\ st = OccurrencesIn({"bijian", "jiecai", "zhengyin", "pianyin"})
        /\ te = OccurrencesIn(LabelSet \ {"bijian", "jiecai", "zhengyin", "pianyin"})
        /\ risk.band \in {"low", "medium", "high"}
        /\ (risk.band = "low") <=> (te <= st)
        /\ (risk.band = "medium") <=> (st < te /\ te <= st + 2)
        /\ (risk.band = "high") <=> (te > st + 2)
        /\ (st = 3 /\ te = 3) => risk.band = "low"
        /\ (st = 3 /\ te = 5) => risk.band = "medium"
        /\ (st = 3 /\ te = 6) => risk.band = "high"
        /\ st + te = NonSelfVisible + Len(features.canggan_ten_gods)
        /\ risk.evidence.diff = te - st

(* C9 witness: the boundary case stabilizing = 3, tension = 5, banded
   medium. *)
C9_Witness ==
  /\ RiskComputed
  /\ WellFormed(pillars)
  /\ risk.evidence.stabilizing = 3
  /\ risk.evidence.tension = 5
  /\ risk.band = "medium"

(* The two other boundary cases named by C9 are reached as well. *)
C9_Reach_3_3 ==
  RiskComputed /\ risk.evidence.stabilizing = 3 /\ risk.evidence.tension = 3
C9_Reach_3_6 ==
  RiskComputed /\ risk.evidence.stabilizing = 3 /\ risk.evidence.tension = 6

-----------------------------------------------------------------------------
(* The self sentinel. *)

(* C10: ten_god(a, b) is bijian if and only if a = b; hence, the day master
   being the day pillar's stem, extract_features labels the day position,
   and every visible position carrying the day master's stem, with the
   sentinel rizhu; bijian never appears in ten_gods_gan, and the bijian
   entry of TEN-GOD-GANS has count 0 and band none. *)
C10_BijianOnlySelf ==
  /\ \A a \in GAN : \A b \in GAN : (ten_god(a, b) = "bijian") <=> (a = b)
  /\ (HasFeatures /\ WellFormed(pillars) /\ pillars.day_master = pillars.day_gz[1]) =>
       /\ features.ten_gods_gan["rigan"] = "rizhu"
       /\ \A i \in 1..4 :
            (gans_of(pillars)[i] = pillars.day_master)
              <=> (features.ten_gods_gan[labels[i]] = "rizhu")
       /\ \A lbl \in DOMAIN features.ten_gods_gan :
            features.ten_gods_gan[lbl] # "bijian"
  /\ (HasHits /\ WellFormed(pillars) /\ pillars.day_master = pillars.day_gz[1]) =>
       BandTable["bijian"] = [count |-> 0, band |-> "none"]

(* C10 witness: the year stem equals the day master, the month stem does
   not; the year position carries the sentinel and the table is emitted. *)
C10_Witness ==
  /\ HasHits
  /\ WellFormed(pillars)
  /\ pillars.year_gz[1] = pillars.day_master
  /\ pillars.month_gz[1] # pillars.day_master
  /\ features.ten_gods_gan["niangan"] = "rizhu"
  /\ features.ten_gods_gan["yuegan"] # "rizhu"
  /\ BandTable["bijian"].count = 0

-----------------------------------------------------------------------------
(* The narrative. *)

(* The sentence the final paragraph is to contain for a risk band. *)
RiskSentence(band) ==
  CASE band = "low"    -> "risk_sentence_low"
    [] band = "medium" -> "risk_sentence_medium"
    [] OTHER           -> "risk_sentence_high"

(* C3: for well-formed pillars and the features and findings computed from
   them, generate_interpretation_text returns a text: five paragraphs
   joined by blank lines, the last of which contains the sentence selected
   by the risk band of the features.  A text is a record of kind "str"
   holding its paragraphs, each a sequence of sentences. *)
C3_FiveParagraphs ==
  (pc = "done" /\ WellFormed(pillars)) =>
    /\ interpretation_text.kind = "str"
    /\ Len(interpretation_text.paragraphs) = 5
    /\ \E k \in 1..Len(interpretation_text.paragraphs[5]) :
         interpretation_text.paragraphs[5][k]
           = RiskSentence(_compute_risk_band(features).band)

(* What the code does instead: the call returns None for every input. *)
C3_ReturnsNone ==
  pc = "done" => interpretation_text = None

-----------------------------------------------------------------------------
(* Malformed input, checked under SpecMalformed. *)

(* C4: when any of the four pillar codes has a stem outside the stem
   alphabet, a branch outside the branch alphabet, or a length other than
   two, extract_features ends in an error and never returns a feature
   bundle. *)
C4_MalformedFailsFast ==
  (pc # "idle" /\ ~WellFormed(pillars)) =>
    /\ pc \in {"pillars", "error"}
    /\ features = None

(* What holds of the code: a code fails when it is shorter than two
   characters or its first two characters are not a stem and a branch;
   characters after the second are ignored. *)
C4_FailsOnFirstTwoCharacters ==
  (pc \notin {"idle", "pillars"}) =>
    ((pc = "error") <=>
       \E i \in 1..4 :
         \/ Len(CodesOf(pillars)[i]) < 2
         \/ CodesOf(pillars)[i][1] \notin GAN
         \/ CodesOf(pillars)[i][2] \notin ZHI)

====
